---- MODULE Spec2Model ----
(***************************************************************************)
(* Model of tenant-dashboard/send-metrics-to-lgtm.py: LGTMMetricsSender.   *)
(*                                                                         *)
(* Three specifications share the module:                                  *)
(*   Spec          one execution of the script (__main__ -> run())         *)
(*   SpecClassify  the categorisation rules of extract_metrics, applied to *)
(*                 one (test_type, title) pair                             *)
(*   SpecFlatten   _extract_tests_from_suite applied to one suite tree     *)
(*                                                                         *)
(* Python values are modelled as follows.  A dict is a function whose      *)
(* domain is its key set, so "k in d" is k \in DOMAIN d and a missing key  *)
(* is visible.  A str that the code inspects (a test title) is a sequence  *)
(* of one-character strings; other strs are TLA+ strings.  A raised        *)
(* exception is a result record with raised = TRUE.  The two float         *)
(* quotients of extract_metrics are kept as unevaluated quotient records.  *)
(***************************************************************************)
EXTENDS Integers, Sequences, FiniteSets, TLC

VARIABLES
    fs,                  \* report location -> ABSENT | MALFORMED | parsed document
    pc,                  \* position of the process inside __main__ / run()
    results,             \* local of run(): mapping returned by read_test_results
    metrics,             \* local of run(): summary returned by extract_metrics
    out,                 \* standard output, one element per print call
    attempts,            \* backend -> number of requests.post calls made
    response,            \* backend -> outcome of its requests.post call
    success,             \* backend -> value returned by its publisher
    exit_code,           \* exit status of the process
    exc,                 \* the exception that ended the process, if any
    run_result,          \* value returned by run()
    c_type, c_title, c_category, c_pc,    \* SpecClassify
    f_suite, f_tests, f_pc,               \* SpecFlatten
    e_results, e_ret, e_pc                \* SpecExtract

vars == <<fs, pc, results, metrics, out, attempts, response, success, exit_code,
          exc, run_result,
          c_type, c_title, c_category, c_pc, f_suite, f_tests, f_pc,
          e_results, e_ret, e_pc>>

runVars == <<fs, pc, results, metrics, out, attempts, response, success, exit_code,
            exc, run_result>>
classifyVars == <<c_type, c_title, c_category, c_pc>>
flattenVars == <<f_suite, f_tests, f_pc>>
extractVars == <<e_results, e_ret, e_pc>>

(***************************************************************************)
(* Bounds of the input families.                                           *)
(***************************************************************************)
MaxWords == 3        \* words per generated title (SpecClassify)
MaxNodes == 5        \* suites plus test cases of one suite tree (SpecFlatten)
MaxDocNodes == 3     \* suites plus test cases of the 'core' report document (Spec)
MaxCases == 5        \* test cases of the report handed to extract_metrics (SpecExtract)

None == "None"       \* Python None / variable not yet bound

(***************************************************************************)
(* Strings as character sequences; str.lower() and the "in" operator.      *)
(***************************************************************************)
UpperCase == <<"A","B","C","D","E","F","G","H","I","J","K","L","M",
               "N","O","P","Q","R","S","T","U","V","W","X","Y","Z">>
LowerCase == <<"a","b","c","d","e","f","g","h","i","j","k","l","m",
               "n","o","p","q","r","s","t","u","v","w","x","y","z">>

lower_char(c) ==
    IF \E i \in 1..26 : UpperCase[i] = c
    THEN LowerCase[CHOOSE i \in 1..26 : UpperCase[i] = c]
    ELSE c

lower(s) == [i \in 1..Len(s) |-> lower_char(s[i])]

\* Python:  sub in s
Contains(sub, s) ==
    \E i \in 0..(Len(s) - Len(sub)) : SubSeq(s, i + 1, i + Len(sub)) = sub

airtable == <<"a","i","r","t","a","b","l","e">>
integration == <<"i","n","t","e","g","r","a","t","i","o","n">>
mobile == <<"m","o","b","i","l","e">>

\* Words that titles are built from.
W_Airtable == <<"A","i","r","t","a","b","l","e">>
W_sync == <<"s","y","n","c">>
W_integration == integration
W_Mobile == <<"M","o","b","i","l","e">>
W_nav == <<"n","a","v">>
W_renders == <<"r","e","n","d","e","r","s">>
W_MOBILE == <<"M","O","B","I","L","E">>

Words == {W_Airtable, W_sync, W_integration, W_Mobile, W_nav, W_renders, W_MOBILE}

RECURSIVE Join(_)
Join(ws) ==
    IF Len(ws) = 0 THEN <<>>
    ELSE IF Len(ws) = 1 THEN ws[1]
    ELSE ws[1] \o <<" ">> \o Join(Tail(ws))

SeqsUpTo(S, n) == UNION {[1..k -> S] : k \in 0..n}

Titles == {Join(ws) : ws \in SeqsUpTo(Words, MaxWords)}

MobileNavRenders == Join(<<W_Mobile, W_nav, W_renders>>)
AirtableSyncIntegration == Join(<<W_Airtable, W_sync, W_integration>>)
NavRenders == Join(<<W_nav, W_renders>>)
SyncRenders == Join(<<W_sync, W_renders>>)

(***************************************************************************)
(* dict.get(key, default)                                                  *)
(***************************************************************************)
Get(d, key, default) == IF key \in DOMAIN d THEN d[key] ELSE default

(***************************************************************************)
(* Categorisation of one test case (extract_metrics, lines 79-87).         *)
(***************************************************************************)
categorize_visual_first(test_type, test_name) ==
    IF Contains(airtable, test_name) \/ Contains(integration, test_name)
    THEN "airtable_integration"
    ELSE IF test_type = "visual"
    THEN "visual_tests"
    ELSE IF Contains(mobile, test_name)
    THEN "mobile_tests"
    ELSE "core_tests"
categorize(test_type, test_name) ==
    IF Contains(airtable, test_name) \/ Contains(integration, test_name)
    THEN "airtable_integration"
    ELSE IF Contains(mobile, test_name) \/ test_type = "visual"
    THEN "mobile_tests"
    ELSE IF test_type = "visual"
    THEN "visual_tests"
    ELSE "core_tests"

\* test.get('title', '').lower() followed by the categorisation
category_of(test_type, test) == categorize(test_type, lower(Get(test, "title", <<>>)))

Categories == <<"core_tests", "visual_tests", "mobile_tests", "airtable_integration">>
CategorySet == {Categories[i] : i \in 1..Len(Categories)}

(***************************************************************************)
(* Suite trees.                                                            *)
(***************************************************************************)
\* A suite dict.  tsOpt and ssOpt are sets of at most one sequence: the dict
\* holds the key 'tests' (resp. 'suites') iff tsOpt (resp. ssOpt) is not empty.
Only(S) == CHOOSE x \in S : TRUE
Opt(S) == {{}} \cup {{x} : x \in S}

MkSuite(tsOpt, ssOpt) ==
    [k \in (IF tsOpt = {} THEN {} ELSE {"tests"}) \cup
           (IF ssOpt = {} THEN {} ELSE {"suites"})
       |-> IF k = "tests" THEN Only(tsOpt) ELSE Only(ssOpt)]

\* The suite trees by weight, the weight of a tree being the number of its
\* suites plus the number of its test cases, so that every nesting depth,
\* branching factor and number of own cases the weight allows occurs.
\* <F>Suites<w> are the suites of weight w and <F>Lists<w> the suite lists
\* of total weight w.  The levels are written out up to weight 6 (Flat) and
\* 4 (Doc); a level the bound does not ask for is empty.
FlatA == [title |-> NavRenders, status |-> "passed", duration |-> 100]
FlatB == [title |-> SyncRenders, status |-> "failed", duration |-> 200]
FlatPool == {FlatA, FlatB}

\* Test cases the report documents are built from.  P2 has neither
\* 'duration' nor 'error'; P4 fails with an error message.
P1 == [title |-> NavRenders, status |-> "passed", duration |-> 100]
P2 == [title |-> SyncRenders, status |-> "timedOut"]
P3 == [title |-> MobileNavRenders, status |-> "passed", duration |-> 300]
P4 == [title |-> AirtableSyncIntegration, status |-> "failed", duration |-> 400,
       error |-> [message |-> "sync failed"]]
Pool == {P1, P2, P3, P4}

\* In SpecFlatten an empty 'tests' or 'suites' list occurs both as [] and as
\* a missing key; in the 'core' report of Spec only as a missing key.
\* A set written out element by element.
Enumerate(S) == {x : x \in S}

FlatEmpties == Opt({<<>>})
DocEmpties == {{}}

FlatLists0 == {<<>>}
DocLists0 == {<<>>}

FlatSuites1 ==
    IF MaxNodes < 1 THEN {}
    ELSE Enumerate({MkSuite(ts, ss) : ts \in FlatEmpties, ss \in FlatEmpties})
FlatLists1 ==
    IF MaxNodes <= 1 THEN {}
    ELSE Enumerate({<<s>> \o rest : s \in FlatSuites1, rest \in FlatLists0})

FlatSuites2 ==
    IF MaxNodes < 2 THEN {}
    ELSE Enumerate({MkSuite(ts, ss) : ts \in FlatEmpties, ss \in {{l} : l \in FlatLists1}}
         \cup {MkSuite(ts, ss) : ts \in {{t} : t \in [1..1 -> FlatPool]}, ss \in FlatEmpties})
FlatLists2 ==
    IF MaxNodes <= 2 THEN {}
    ELSE Enumerate({<<s>> \o rest : s \in FlatSuites1, rest \in FlatLists1}
         \cup {<<s>> \o rest : s \in FlatSuites2, rest \in FlatLists0})

FlatSuites3 ==
    IF MaxNodes < 3 THEN {}
    ELSE Enumerate({MkSuite(ts, ss) : ts \in FlatEmpties, ss \in {{l} : l \in FlatLists2}}
         \cup {MkSuite(ts, ss) : ts \in {{t} : t \in [1..1 -> FlatPool]}, ss \in {{l} : l \in FlatLists1}}
         \cup {MkSuite(ts, ss) : ts \in {{t} : t \in [1..2 -> FlatPool]}, ss \in FlatEmpties})
FlatLists3 ==
    IF MaxNodes <= 3 THEN {}
    ELSE Enumerate({<<s>> \o rest : s \in FlatSuites1, rest \in FlatLists2}
         \cup {<<s>> \o rest : s \in FlatSuites2, rest \in FlatLists1}
         \cup {<<s>> \o rest : s \in FlatSuites3, rest \in FlatLists0})

FlatSuites4 ==
    IF MaxNodes < 4 THEN {}
    ELSE Enumerate({MkSuite(ts, ss) : ts \in FlatEmpties, ss \in {{l} : l \in FlatLists3}}
         \cup {MkSuite(ts, ss) : ts \in {{t} : t \in [1..1 -> FlatPool]}, ss \in {{l} : l \in FlatLists2}}
         \cup {MkSuite(ts, ss) : ts \in {{t} : t \in [1..2 -> FlatPool]}, ss \in {{l} : l \in FlatLists1}}
         \cup {MkSuite(ts, ss) : ts \in {{t} : t \in [1..3 -> FlatPool]}, ss \in FlatEmpties})
FlatLists4 ==
    IF MaxNodes <= 4 THEN {}
    ELSE Enumerate({<<s>> \o rest : s \in FlatSuites1, rest \in FlatLists3}
         \cup {<<s>> \o rest : s \in FlatSuites2, rest \in FlatLists2}
         \cup {<<s>> \o rest : s \in FlatSuites3, rest \in FlatLists1}
         \cup {<<s>> \o rest : s \in FlatSuites4, rest \in FlatLists0})

FlatSuites5 ==
    IF MaxNodes < 5 THEN {}
    ELSE Enumerate({MkSuite(ts, ss) : ts \in FlatEmpties, ss \in {{l} : l \in FlatLists4}}
         \cup {MkSuite(ts, ss) : ts \in {{t} : t \in [1..1 -> FlatPool]}, ss \in {{l} : l \in FlatLists3}}
         \cup {MkSuite(ts, ss) : ts \in {{t} : t \in [1..2 -> FlatPool]}, ss \in {{l} : l \in FlatLists2}}
         \cup {MkSuite(ts, ss) : ts \in {{t} : t \in [1..3 -> FlatPool]}, ss \in {{l} : l \in FlatLists1}}
         \cup {MkSuite(ts, ss) : ts \in {{t} : t \in [1..4 -> FlatPool]}, ss \in FlatEmpties})
FlatLists5 ==
    IF MaxNodes <= 5 THEN {}
    ELSE Enumerate({<<s>> \o rest : s \in FlatSuites1, rest \in FlatLists4}
         \cup {<<s>> \o rest : s \in FlatSuites2, rest \in FlatLists3}
         \cup {<<s>> \o rest : s \in FlatSuites3, rest \in FlatLists2}
         \cup {<<s>> \o rest : s \in FlatSuites4, rest \in FlatLists1}
         \cup {<<s>> \o rest : s \in FlatSuites5, rest \in FlatLists0})

FlatSuites6 ==
    IF MaxNodes < 6 THEN {}
    ELSE Enumerate({MkSuite(ts, ss) : ts \in FlatEmpties, ss \in {{l} : l \in FlatLists5}}
         \cup {MkSuite(ts, ss) : ts \in {{t} : t \in [1..1 -> FlatPool]}, ss \in {{l} : l \in FlatLists4}}
         \cup {MkSuite(ts, ss) : ts \in {{t} : t \in [1..2 -> FlatPool]}, ss \in {{l} : l \in FlatLists3}}
         \cup {MkSuite(ts, ss) : ts \in {{t} : t \in [1..3 -> FlatPool]}, ss \in {{l} : l \in FlatLists2}}
         \cup {MkSuite(ts, ss) : ts \in {{t} : t \in [1..4 -> FlatPool]}, ss \in {{l} : l \in FlatLists1}}
         \cup {MkSuite(ts, ss) : ts \in {{t} : t \in [1..5 -> FlatPool]}, ss \in FlatEmpties})
DocSuites1 ==
    IF MaxDocNodes < 1 THEN {}
    ELSE Enumerate({MkSuite(ts, ss) : ts \in DocEmpties, ss \in DocEmpties})
DocLists1 ==
    IF MaxDocNodes < 1 THEN {}
    ELSE Enumerate({<<s>> \o rest : s \in DocSuites1, rest \in DocLists0})

DocSuites2 ==
    IF MaxDocNodes < 2 THEN {}
    ELSE Enumerate({MkSuite(ts, ss) : ts \in DocEmpties, ss \in {{l} : l \in DocLists1}}
         \cup {MkSuite(ts, ss) : ts \in {{t} : t \in [1..1 -> Pool]}, ss \in DocEmpties})
DocLists2 ==
    IF MaxDocNodes < 2 THEN {}
    ELSE Enumerate({<<s>> \o rest : s \in DocSuites1, rest \in DocLists1}
         \cup {<<s>> \o rest : s \in DocSuites2, rest \in DocLists0})

DocSuites3 ==
    IF MaxDocNodes < 3 THEN {}
    ELSE Enumerate({MkSuite(ts, ss) : ts \in DocEmpties, ss \in {{l} : l \in DocLists2}}
         \cup {MkSuite(ts, ss) : ts \in {{t} : t \in [1..1 -> Pool]}, ss \in {{l} : l \in DocLists1}}
         \cup {MkSuite(ts, ss) : ts \in {{t} : t \in [1..2 -> Pool]}, ss \in DocEmpties})
DocLists3 ==
    IF MaxDocNodes < 3 THEN {}
    ELSE Enumerate({<<s>> \o rest : s \in DocSuites1, rest \in DocLists2}
         \cup {<<s>> \o rest : s \in DocSuites2, rest \in DocLists1}
         \cup {<<s>> \o rest : s \in DocSuites3, rest \in DocLists0})

DocSuites4 ==
    IF MaxDocNodes < 4 THEN {}
    ELSE Enumerate({MkSuite(ts, ss) : ts \in DocEmpties, ss \in {{l} : l \in DocLists3}}
         \cup {MkSuite(ts, ss) : ts \in {{t} : t \in [1..1 -> Pool]}, ss \in {{l} : l \in DocLists2}}
         \cup {MkSuite(ts, ss) : ts \in {{t} : t \in [1..2 -> Pool]}, ss \in {{l} : l \in DocLists1}}
         \cup {MkSuite(ts, ss) : ts \in {{t} : t \in [1..3 -> Pool]}, ss \in DocEmpties})
DocLists4 ==
    IF MaxDocNodes < 4 THEN {}
    ELSE Enumerate({<<s>> \o rest : s \in DocSuites1, rest \in DocLists3}
         \cup {<<s>> \o rest : s \in DocSuites2, rest \in DocLists2}
         \cup {<<s>> \o rest : s \in DocSuites3, rest \in DocLists1}
         \cup {<<s>> \o rest : s \in DocSuites4, rest \in DocLists0})

FlatSuites == Enumerate(FlatSuites1 \cup FlatSuites2 \cup FlatSuites3 \cup FlatSuites4
                        \cup FlatSuites5 \cup FlatSuites6)

DocLists == Enumerate(DocLists0 \cup DocLists1 \cup DocLists2 \cup DocLists3 \cup DocLists4)

\* _extract_tests_from_suite (lines 109-117)
RECURSIVE _extract_tests_from_suite(_)
RECURSIVE extend_subsuites(_, _, _)
extend_subsuites(tests, subsuites, i) ==
    IF i > Len(subsuites) THEN tests
    ELSE extend_subsuites(tests \o _extract_tests_from_suite(subsuites[i]),
                          subsuites, i + 1)

\* Variant of the walk that visits the sub-suites before the suite's own cases.
RECURSIVE extract_subsuites_first(_)
RECURSIVE extend_subsuites_first(_, _, _)
extend_subsuites_first(tests, subsuites, i) ==
    IF i > Len(subsuites) THEN tests
    ELSE extend_subsuites_first(tests \o extract_subsuites_first(subsuites[i]),
                                subsuites, i + 1)

extract_subsuites_first(suite) ==
    LET tests1 == IF "suites" \in DOMAIN suite
                  THEN extend_subsuites_first(<<>>, suite["suites"], 1)
                  ELSE <<>>
    IN  IF "tests" \in DOMAIN suite THEN tests1 \o suite["tests"] ELSE tests1

_extract_tests_from_suite(suite) ==
    LET tests0 == <<>>
        tests1 == IF "tests" \in DOMAIN suite THEN tests0 \o suite["tests"] ELSE tests0
    IN  IF "suites" \in DOMAIN suite
        THEN extend_subsuites(tests1, suite["suites"], 1)
        ELSE tests1

(***************************************************************************)
(* SpecFlatten: one call of _extract_tests_from_suite.                     *)
(***************************************************************************)

RunIdle ==
    /\ fs = None /\ pc = "idle" /\ results = None /\ metrics = None
    /\ out = <<>> /\ attempts = None /\ response = None /\ success = None
    /\ exit_code = None /\ exc = None /\ run_result = None
ClassifyIdle == c_type = None /\ c_title = None /\ c_category = None /\ c_pc = "idle"
FlattenIdle == f_suite = None /\ f_tests = None /\ f_pc = "idle"
ExtractIdle == e_results = None /\ e_ret = None /\ e_pc = "idle"

InitFlatten ==
    /\ f_suite \in FlatSuites
    /\ f_tests = None
    /\ f_pc = "call"
    /\ RunIdle /\ ClassifyIdle /\ ExtractIdle

Flatten ==
    /\ f_pc = "call"
    /\ f_tests' = _extract_tests_from_suite(f_suite)
    /\ f_pc' = "returned"
    /\ UNCHANGED <<f_suite, runVars, classifyVars, extractVars>>

NextFlatten == Flatten
SpecFlatten == InitFlatten /\ [][NextFlatten]_vars

(***************************************************************************)
(* Positions of the leaf test cases of a suite tree, stated without the    *)
(* walk: a leaf is named by the indices of the sub-suites leading to its   *)
(* suite (path) and its index in that suite's 'tests' list (idx).          *)
(***************************************************************************)
OwnTests(suite) == IF "tests" \in DOMAIN suite THEN suite["tests"] ELSE <<>>
SubSuites(suite) == IF "suites" \in DOMAIN suite THEN suite["suites"] ELSE <<>>

RECURSIVE LeafSet(_)
LeafSet(suite) ==
    {[path |-> <<>>, idx |-> i] : i \in 1..Len(OwnTests(suite))}
    \cup UNION {{[path |-> <<j>> \o l.path, idx |-> l.idx] :
                    l \in LeafSet(SubSuites(suite)[j])} :
                j \in 1..Len(SubSuites(suite))}

RECURSIVE TestAt(_, _)
TestAt(suite, leaf) ==
    IF leaf.path = <<>> THEN OwnTests(suite)[leaf.idx]
    ELSE TestAt(SubSuites(suite)[Head(leaf.path)],
                [path |-> Tail(leaf.path), idx |-> leaf.idx])

IsPrefix(p, q) == Len(p) <= Len(q) /\ SubSeq(q, 1, Len(p)) = p

\* Leaf a comes before leaf b: in the same suite by index; a suite's own
\* cases before the cases of its sub-suites; otherwise by the first
\* sub-suite index at which the two paths part.
Before(a, b) ==
    IF a.path = b.path THEN a.idx < b.idx
    ELSE IF IsPrefix(a.path, b.path) THEN TRUE
    ELSE IF IsPrefix(b.path, a.path) THEN FALSE
    ELSE LET k == CHOOSE i \in 1..Len(a.path) :
                      /\ a.path[i] # b.path[i]
                      /\ \A j \in 1..(i - 1) : a.path[j] = b.path[j]
         IN  a.path[k] < b.path[k]

Rank(leaves, l) == 1 + Cardinality({m \in leaves : Before(m, l)})

\* C4: the walk returned, and its result holds one record per leaf test case
\* of the tree (as many records as leaves), the record at the rank of every
\* leaf being that leaf's test case, where rank puts a suite's own cases
\* before the cases of its sub-suites and sub-suites in document order.
C4_FlattenOneRecordPerLeafInOrder ==
    f_pc = "returned" =>
        LET leaves == LeafSet(f_suite)
        IN  /\ Len(f_tests) = Cardinality(leaves)
            /\ \A l \in leaves : f_tests[Rank(leaves, l)] = TestAt(f_suite, l)

\* C4 witness: a returned walk of a suite with an own case and two
\* sub-suites, the first of them holding a case: the own case comes first.
C4_Witness ==
    /\ f_pc = "returned"
    /\ OwnTests(f_suite) = <<FlatA>>
    /\ Len(SubSuites(f_suite)) = 2
    /\ OwnTests(SubSuites(f_suite)[1]) = <<FlatB>>
    /\ f_tests = <<FlatA, FlatB>>

(***************************************************************************)
(* Spec: one execution of the script.                                      *)
(***************************************************************************)
\* A parsed report without the key 'suites'.  In the 'core' report an empty
\* 'tests' or 'suites' list of a suite is a missing key.
NoSuitesDoc == [errors |-> <<>>]

CoreDocs ==
    {NoSuitesDoc} \cup
    {[suites |-> ss] : ss \in DocLists}

\* The 'visual' report holds at most one suite with at most one test case.
VisualDocs ==
    {NoSuitesDoc, [suites |-> <<>>]} \cup
    {[suites |-> <<MkSuite(ts, {})>>] : ts \in Opt({<<>>} \cup {<<t>> : t \in Pool})}

\* State of a report location: missing, present with content json.load
\* rejects, or present with a parsed document.
Absent == [exists |-> FALSE]
Malformed == [exists |-> TRUE, parses |-> FALSE]
Parsed(doc) == [exists |-> TRUE, parses |-> TRUE, data |-> doc]

FileStates(docs) == {Absent, Malformed} \cup {Parsed(d) : d \in docs}

\* read_test_results (lines 21-36): 'core' is loaded before 'visual'; an
\* error of json.load is not caught.
Labels == <<"core", "visual">>

read_test_results(files) ==
    IF files["core"].exists /\ ~files["core"].parses
    THEN [raised |-> TRUE, error |-> "JSONDecodeError"]
    ELSE IF files["visual"].exists /\ ~files["visual"].parses
    THEN [raised |-> TRUE, error |-> "JSONDecodeError"]
    ELSE [raised |-> FALSE,
          value |-> [k \in {l \in {"core", "visual"} : files[l].exists}
                       |-> files[k].data]]

\* Python:  not results
always_data(res) == FALSE
is_empty(res) == DOMAIN res = {}

(***************************************************************************)
(* extract_metrics (lines 38-107).                                         *)
(***************************************************************************)
\* The dict literal of lines 40-69: mobile_tests and airtable_integration
\* are created without 'avg_duration' and 'total_duration'.
initial_metrics ==
    [c \in CategorySet |->
        IF c \in {"core_tests", "visual_tests"}
        THEN [total |-> 0, passed |-> 0, failed |-> 0, success_rate |-> 0,
              avg_duration |-> 0, total_duration |-> 0]
        ELSE [total |-> 0, passed |-> 0, failed |-> 0, success_rate |-> 0]]

RECURSIVE suites_tests(_, _)
suites_tests(suites, i) ==
    IF i > Len(suites) THEN <<>>
    ELSE _extract_tests_from_suite(suites[i]) \o suites_tests(suites, i + 1)

\* The test cases the loops of lines 71-74 (and 178-181) visit, in order,
\* each with the label of its report.
RECURSIVE visited_tests(_, _)
visited_tests(res, i) ==
    IF i > Len(Labels) THEN <<>>
    ELSE LET test_type == Labels[i]
             here == IF test_type \in DOMAIN res /\ "suites" \in DOMAIN res[test_type]
                     THEN LET ts == suites_tests(res[test_type]["suites"], 1)
                          IN  [n \in 1..Len(ts) |-> [test_type |-> test_type, test |-> ts[n]]]
                     ELSE <<>>
         IN  here \o visited_tests(res, i + 1)

\* lines 92-95
count_passed_only(data, status) ==
    IF status = "passed" THEN [data EXCEPT !["passed"] = @ + 1] ELSE data
count_status(data, status) ==
    IF status = "passed"
    THEN [data EXCEPT !["passed"] = @ + 1]
    ELSE [data EXCEPT !["failed"] = @ + 1]

\* lines 75-95, for the test cases from position i on
RECURSIVE accumulate(_, _, _)
accumulate(m, cases, i) ==
    IF i > Len(cases) THEN [raised |-> FALSE, metrics |-> m]
    ELSE LET test == cases[i].test
             category == category_of(cases[i].test_type, test)
             status == Get(test, "status", "unknown")
             duration == Get(test, "duration", 0)
             d1 == [m[category] EXCEPT !["total"] = @ + 1]
         IN  IF "total_duration" \notin DOMAIN d1
             THEN [raised |-> TRUE, error |-> "KeyError"]
             ELSE LET d2 == [d1 EXCEPT !["total_duration"] = @ + duration]
                      d3 == count_status(d2, status)
                  IN  accumulate([m EXCEPT ![category] = d3], cases, i + 1)

\* The float expressions of lines 101, 102, 232 and 281, kept unevaluated.
Percent(passed, total) == [expr |-> "(passed / total) * 100", passed |-> passed, total |-> total]
Average(sum, total) == [expr |-> "total_duration / total", total_duration |-> sum, total |-> total]

(***************************************************************************)
(* The value of the float expressions: Python's float is the IEEE 754      *)
(* binary64 format and / and * round the exact result to the nearest       *)
(* float, ties to even.  A positive float is its significand, as           *)
(* SignificandBits bits with the leading 1 first, and the exponent of its  *)
(* last bit: the value is significand * 2^exp.  The operands here are      *)
(* counts and millisecond sums, far from overflow and underflow.           *)
(***************************************************************************)
SignificandBits == 53

FZero == [mant |-> <<>>, exp |-> 0]

RECURSIVE NatBits(_)
NatBits(n) == IF n = 0 THEN <<>> ELSE Append(NatBits(n \div 2), n % 2)

RECURSIVE Increment(_)
Increment(bits) ==
    IF bits = <<>> THEN <<1>>
    ELSE IF bits[Len(bits)] = 0
         THEN Append(SubSeq(bits, 1, Len(bits) - 1), 1)
         ELSE Append(Increment(SubSeq(bits, 1, Len(bits) - 1)), 0)

\* The float nearest to bits * 2^exp (plus a nonzero remainder below the
\* last bit if sticky), ties to even.  bits starts with a 1.
Round(bits, exp, sticky) ==
    IF Len(bits) <= SignificandBits
    THEN [mant |-> bits \o [i \in 1..(SignificandBits - Len(bits)) |-> 0],
          exp |-> exp - (SignificandBits - Len(bits))]
    ELSE LET keep == SubSeq(bits, 1, SignificandBits)
             below == \/ sticky
                      \/ \E i \in (SignificandBits + 2)..Len(bits) : bits[i] = 1
             up == bits[SignificandBits + 1] = 1 /\ (below \/ keep[SignificandBits] = 1)
             e == exp + (Len(bits) - SignificandBits)
         IN  IF ~up THEN [mant |-> keep, exp |-> e]
             ELSE IF \A i \in 1..SignificandBits : keep[i] = 1
                  THEN [mant |-> <<1>> \o [i \in 1..(SignificandBits - 1) |-> 0],
                        exp |-> e + 1]
                  ELSE [mant |-> Increment(keep), exp |-> e]

\* p / t brought to t <= p < 2 * t, with the power of two taken out
RECURSIVE Normalise(_, _, _)
Normalise(p, t, k) ==
    IF p >= 2 * t THEN Normalise(p, 2 * t, k + 1)
    ELSE IF p < t THEN Normalise(2 * p, t, k - 1)
    ELSE [p |-> p, t |-> t, k |-> k]

\* n more bits of the quotient by long division, r the remainder so far
RECURSIVE QuotientBits(_, _, _, _)
QuotientBits(r, t, n, acc) ==
    IF n = 0 THEN [bits |-> acc, rem |-> r]
    ELSE QuotientBits(IF 2 * r >= t THEN 2 * r - t ELSE 2 * r, t, n - 1,
                      Append(acc, IF 2 * r >= t THEN 1 ELSE 0))

\* the float p / t of two non-negative ints, t > 0
float_div(p, t) ==
    IF p = 0 THEN FZero
    ELSE LET n == Normalise(p, t, 0)
             q == QuotientBits(n.p - n.t, n.t, SignificandBits, <<1>>)
         IN  Round(q.bits, n.k - SignificandBits, q.rem # 0)

\* bits * n, from the last bit upwards
RECURSIVE ProductBits(_, _, _, _, _)
ProductBits(bits, i, n, carry, acc) ==
    IF i = 0 THEN NatBits(carry) \o acc
    ELSE ProductBits(bits, i - 1, n, (bits[i] * n + carry) \div 2,
                     <<(bits[i] * n + carry) % 2>> \o acc)

\* the float x * n of a float and a non-negative int
float_mul(x, n) ==
    IF x = FZero \/ n = 0 THEN FZero
    ELSE Round(ProductBits(x.mant, Len(x.mant), n, 0, <<>>), x.exp, FALSE)

\* float(n) of a non-negative int
float_of_int(n) == IF n = 0 THEN FZero ELSE Round(NatBits(n), 0, FALSE)

\* the value of the success_rate of line 101 or the avg_duration of line 102
float_value(x) ==
    IF x.expr = "(passed / total) * 100"
    THEN float_mul(float_div(x.passed, x.total), 100)
    ELSE float_div(x.total_duration, x.total)

SetKey(d, key, value) == [k \in DOMAIN d \cup {key} |-> IF k = key THEN value ELSE d[k]]

\* lines 99-105 for one category
derive_failure_rate(data) ==
    IF data["total"] > 0
    THEN SetKey(SetKey(data, "success_rate", Percent(data["failed"], data["total"])),
                "avg_duration", Average(data["total_duration"], data["total"]))
    ELSE SetKey(SetKey(data, "success_rate", 0), "avg_duration", 0)
derive(data) ==
    IF data["total"] > 0
    THEN SetKey(SetKey(data, "success_rate", Percent(data["passed"], data["total"])),
                "avg_duration", Average(data["total_duration"], data["total"]))
    ELSE SetKey(SetKey(data, "success_rate", 0), "avg_duration", 0)

extract_metrics(res) ==
    LET acc == accumulate(initial_metrics, visited_tests(res, 1), 1)
    IN  IF acc.raised THEN acc
        ELSE IF \E c \in CategorySet :
                    acc.metrics[c]["total"] > 0 /\ "total_duration" \notin DOMAIN acc.metrics[c]
        THEN [raised |-> TRUE, error |-> "KeyError"]
        ELSE [raised |-> FALSE, metrics |-> [c \in CategorySet |-> derive(acc.metrics[c])]]

(***************************************************************************)
(* The publishers.  outcome is what requests.post did: it raised a         *)
(* RequestException (error) or returned a response with status_code.       *)
(***************************************************************************)
Backends == {"prometheus", "loki", "grafana"}

TransportError == [error |-> TRUE, status_code |-> 0]
Status(code) == [error |-> FALSE, status_code |-> code]
Outcomes == {TransportError, Status(200), Status(201), Status(204)}
NoResponse == [error |-> FALSE, status_code |-> 0]

Line(kind) == [kind |-> kind]

RECURSIVE SumOver(_, _, _)
SumOver(m, key, i) ==
    IF i > Len(Categories) THEN 0
    ELSE m[Categories[i]][key] + SumOver(m, key, i + 1)

\* lines 230-232 and 279-281
overall_success_rate(total_passed, total_tests) ==
    IF total_tests > 0 THEN Percent(total_passed, total_tests) ELSE 0

\* lines 121-133: five metric lines per category, then the timestamp line
category_metric_lines(category, data) ==
    << [name |-> "playwright_tests_total", category |-> category, value |-> data["total"]],
       [name |-> "playwright_tests_passed", category |-> category, value |-> data["passed"]],
       [name |-> "playwright_tests_failed", category |-> category, value |-> data["failed"]],
       [name |-> "playwright_success_rate", category |-> category, value |-> data["success_rate"]],
       [name |-> "playwright_avg_duration_ms", category |-> category, value |-> data["avg_duration"]] >>

RECURSIVE metric_lines_from(_, _)
metric_lines_from(m, i) ==
    IF i > Len(Categories) THEN <<>>
    ELSE category_metric_lines(Categories[i], m[Categories[i]]) \o metric_lines_from(m, i + 1)

prometheus_metrics(m) ==
    metric_lines_from(m, 1)
    \o << [name |-> "playwright_test_execution_timestamp", value |-> "self.timestamp"] >>

\* send_to_prometheus (lines 119-153)
prometheus_uncaught(m, outcome) ==
    IF outcome.error THEN [raised |-> TRUE, error |-> "RequestException"]
    ELSE IF outcome.status_code = 200
    THEN [raised |-> FALSE, ret |-> TRUE, printed |-> <<Line("prometheus_sent")>>]
    ELSE [raised |-> FALSE, ret |-> FALSE, printed |-> <<Line("prometheus_manual")>>]
send_to_prometheus(m, outcome) ==
    IF ~outcome.error /\ outcome.status_code = 200
    THEN [raised |-> FALSE, ret |-> TRUE, printed |-> <<Line("prometheus_sent")>>]
    ELSE [raised |-> FALSE, ret |-> FALSE,
          printed |-> <<Line("prometheus_manual")>> \o
                      [i \in 1..Len(prometheus_metrics(m)) |->
                          [kind |-> "prometheus_metric", metric |-> prometheus_metrics(m)[i]]]]

\* lines 160-175
category_log_entry(category, data) ==
    [level |-> "info", service |-> "playwright_tests", category |-> category,
     total_tests |-> data["total"], passed |-> data["passed"], failed |-> data["failed"],
     success_rate |-> data["success_rate"], avg_duration_ms |-> data["avg_duration"]]

Unknown == <<"U","n","k","n","o","w","n">>

\* lines 183-194
error_log_entry(test) ==
    [level |-> "error", service |-> "playwright_tests",
     test_name |-> Get(test, "title", Unknown),
     status |-> Get(test, "status", "unknown"),
     duration |-> Get(test, "duration", 0),
     error |-> Get(Get(test, "error", <<>>), "message", "No error message")]

RECURSIVE error_entries(_, _)
error_entries(cases, i) ==
    IF i > Len(cases) THEN <<>>
    ELSE (IF Get(cases[i].test, "status", None) # "passed"
          THEN <<error_log_entry(cases[i].test)>> ELSE <<>>)
         \o error_entries(cases, i + 1)

\* lines 157-195
log_entries(m, res) ==
    [i \in 1..Len(Categories) |-> category_log_entry(Categories[i], m[Categories[i]])]
    \o error_entries(visited_tests(res, 1), 1)

\* lines 222-223: the entries shown when the push failed
shown_entries(entries) == SubSeq(entries, 1, 3)

\* send_to_loki (lines 155-226)
loki_always_true(m, res, outcome) ==
    [raised |-> FALSE, ret |-> TRUE,
     printed |-> <<[kind |-> "loki_sent", count |-> Len(log_entries(m, res))]>>]
send_to_loki(m, res, outcome) ==
    LET entries == log_entries(m, res)
    IN  IF ~outcome.error /\ outcome.status_code = 204
        THEN [raised |-> FALSE, ret |-> TRUE,
              printed |-> <<[kind |-> "loki_sent", count |-> Len(entries)]>>]
        ELSE [raised |-> FALSE, ret |-> FALSE,
              printed |-> <<Line("loki_manual")>> \o
                          [i \in 1..Len(shown_entries(entries)) |->
                              [kind |-> "loki_entry", entry |-> shown_entries(entries)[i]]] \o
                          <<[kind |-> "loki_more", count |-> Len(entries) - 3]>>]

\* lines 230-243
annotation(m) ==
    LET total_tests == SumOver(m, "total", 1)
        total_passed == SumOver(m, "passed", 1)
    IN  [time |-> "self.timestamp", timeEnd |-> "self.timestamp + 60000",
         tags |-> <<"playwright", "frontend-testing", "automation">>,
         text |-> [total_tests |-> total_tests, passed |-> total_passed,
                   success_rate |-> overall_success_rate(total_passed, total_tests)]]

\* create_grafana_annotation (lines 228-263)
create_grafana_annotation(m, outcome) ==
    IF ~outcome.error /\ outcome.status_code \in {200, 201}
    THEN [raised |-> FALSE, ret |-> TRUE, printed |-> <<Line("grafana_created")>>]
    ELSE [raised |-> FALSE, ret |-> FALSE,
          printed |-> << Line("grafana_manual"),
                         [kind |-> "grafana_annotation", annotation |-> annotation(m)] >>]

(***************************************************************************)
(* run() (lines 265-306) and __main__ (lines 308-311).                     *)
(***************************************************************************)
RECURSIVE breakdown_from(_, _)
breakdown_from(m, i) ==
    IF i > Len(Categories) THEN <<>>
    ELSE (IF m[Categories[i]]["total"] > 0
          THEN <<[kind |-> "category", category |-> Categories[i],
                  passed |-> m[Categories[i]]["passed"],
                  total |-> m[Categories[i]]["total"],
                  success_rate |-> m[Categories[i]]["success_rate"]]>>
          ELSE <<>>)
         \o breakdown_from(m, i + 1)

\* lines 278-295: what run() prints between extract_metrics and the first
\* publisher
no_summary(m) == <<>>
summary_lines(m) ==
    LET total_tests == SumOver(m, "total", 1)
        total_passed == SumOver(m, "passed", 1)
    IN  << Line("summary_header"),
           [kind |-> "total_tests", value |-> total_tests],
           [kind |-> "passed", value |-> total_passed],
           [kind |-> "failed", value |-> total_tests - total_passed],
           [kind |-> "overall_success_rate",
            value |-> overall_success_rate(total_passed, total_tests)],
           Line("breakdown_header") >>
        \o breakdown_from(m, 1)
        \o << Line("sending") >>

\* lines 301-304
summary_without_grafana(s) ==
    << Line("integration_header"),
       [kind |-> "backend", backend |-> "prometheus", ok |-> s["prometheus"]],
       [kind |-> "backend", backend |-> "loki", ok |-> s["loki"]] >>
integration_summary(s) ==
    << Line("integration_header"),
       [kind |-> "backend", backend |-> "prometheus", ok |-> s["prometheus"]],
       [kind |-> "backend", backend |-> "loki", ok |-> s["loki"]],
       [kind |-> "backend", backend |-> "grafana", ok |-> s["grafana"]] >>

Init ==
    /\ fs \in [core : FileStates(CoreDocs), visual : FileStates(VisualDocs)]
    /\ pc = "main"
    /\ results = None
    /\ metrics = None
    /\ out = <<>>
    /\ attempts = [b \in Backends |-> 0]
    /\ response = [b \in Backends |-> NoResponse]
    /\ success = [b \in Backends |-> FALSE]
    /\ exit_code = None
    /\ exc = None
    /\ run_result = None
    /\ ClassifyIdle /\ FlattenIdle /\ ExtractIdle

\* An exception nobody catches leaves run() and __main__: the interpreter
\* prints the traceback and exits with status 1.
Abort(error) ==
    /\ exc' = error
    /\ exit_code' = 1
    /\ pc' = "exited"

\* lines 309-310, 267, 270: json.load raises
RunReadRaises ==
    /\ pc = "main"
    /\ read_test_results(fs).raised
    /\ out' = out \o <<Line("starting")>>
    /\ Abort(read_test_results(fs).error)
    /\ UNCHANGED <<fs, results, metrics, attempts, response, success, run_result,
                   classifyVars, flattenVars, extractVars>>

\* lines 309-310, 267, 270-273: nothing was loaded
RunNoData ==
    /\ pc = "main"
    /\ ~read_test_results(fs).raised
    /\ is_empty(read_test_results(fs).value)
    /\ results' = read_test_results(fs).value
    /\ out' = out \o <<Line("starting"), Line("no_results")>>
    /\ run_result' = FALSE
    /\ pc' = "returned"
    /\ UNCHANGED <<fs, metrics, attempts, response, success, exit_code, exc,
                   classifyVars, flattenVars, extractVars>>

\* lines 309-310, 267, 270-271: a non-empty mapping was loaded
RunRead ==
    /\ pc = "main"
    /\ ~read_test_results(fs).raised
    /\ ~is_empty(read_test_results(fs).value)
    /\ results' = read_test_results(fs).value
    /\ out' = out \o <<Line("starting")>>
    /\ pc' = "extract"
    /\ UNCHANGED <<fs, metrics, attempts, response, success, exit_code, exc, run_result,
                   classifyVars, flattenVars, extractVars>>

\* line 276, extract_metrics raises
RunExtractRaises ==
    /\ pc = "extract"
    /\ extract_metrics(results).raised
    /\ Abort(extract_metrics(results).error)
    /\ UNCHANGED <<fs, results, metrics, out, attempts, response, success, run_result,
                   classifyVars, flattenVars, extractVars>>

\* line 276, extract_metrics returns
RunExtract ==
    /\ pc = "extract"
    /\ ~extract_metrics(results).raised
    /\ metrics' = extract_metrics(results).metrics
    /\ pc' = "summary"
    /\ UNCHANGED <<fs, results, out, attempts, response, success, exit_code, exc,
                   run_result, classifyVars, flattenVars, extractVars>>

\* lines 278-295
RunPrintSummary ==
    /\ pc = "summary"
    /\ out' = out \o summary_lines(metrics)
    /\ pc' = "prometheus"
    /\ UNCHANGED <<fs, results, metrics, attempts, response, success, exit_code, exc,
                   run_result, classifyVars, flattenVars, extractVars>>

\* One publisher call: a single requests.post with the given outcome, then
\* either the publisher's return or the exception it let through.
Publish(backend, outcome, call, next) ==
    /\ attempts' = [attempts EXCEPT ![backend] = @ + 1]
    /\ response' = [response EXCEPT ![backend] = outcome]
    /\ IF call.raised
       THEN /\ Abort(call.error)
            /\ UNCHANGED <<out, success>>
       ELSE /\ out' = out \o call.printed
            /\ success' = [success EXCEPT ![backend] = call.ret]
            /\ pc' = next
            /\ UNCHANGED <<exit_code, exc>>
    /\ UNCHANGED <<fs, results, metrics, run_result, classifyVars, flattenVars, extractVars>>

\* line 297
RunSendPrometheus ==
    /\ pc = "prometheus"
    /\ \E outcome \in Outcomes :
          Publish("prometheus", outcome, send_to_prometheus(metrics, outcome), "loki")

\* line 298
RunSendLoki ==
    /\ pc = "loki"
    /\ \E outcome \in Outcomes :
          Publish("loki", outcome, send_to_loki(metrics, results, outcome), "grafana")

\* line 299
RunCreateGrafanaAnnotation ==
    /\ pc = "grafana"
    /\ \E outcome \in Outcomes :
          Publish("grafana", outcome, create_grafana_annotation(metrics, outcome), "report")

\* lines 301-306
RunReport ==
    /\ pc = "report"
    /\ out' = out \o integration_summary(success)
    /\ run_result' = TRUE
    /\ pc' = "returned"
    /\ UNCHANGED <<fs, results, metrics, attempts, response, success, exit_code, exc,
                   classifyVars, flattenVars, extractVars>>

\* line 311: sys.exit(0 if success else 1)
MainExit ==
    /\ pc = "returned"
    /\ exit_code' = IF run_result THEN 0 ELSE 1
    /\ pc' = "exited"
    /\ UNCHANGED <<fs, results, metrics, out, attempts, response, success, exc,
                   run_result, classifyVars, flattenVars, extractVars>>

Next ==
    \/ RunReadRaises
    \/ RunNoData
    \/ RunRead
    \/ RunExtractRaises
    \/ RunExtract
    \/ RunPrintSummary
    \/ RunSendPrometheus
    \/ RunSendLoki
    \/ RunCreateGrafanaAnnotation
    \/ RunReport
    \/ MainExit

Spec == Init /\ [][Next]_vars

(***************************************************************************)
(* SpecClassify: the categorisation of one (test_type, title) pair.        *)
(***************************************************************************)
TestTypes == {"core", "visual"}

InitClassify ==
    /\ c_type \in TestTypes
    /\ c_title \in Titles
    /\ c_category = None
    /\ c_pc = "call"
    /\ RunIdle /\ FlattenIdle /\ ExtractIdle

Classify ==
    /\ c_pc = "call"
    /\ c_category' = category_of(c_type, [title |-> c_title])
    /\ c_pc' = "returned"
    /\ UNCHANGED <<c_type, c_title, runVars, flattenVars, extractVars>>

NextClassify == Classify
SpecClassify == InitClassify /\ [][NextClassify]_vars

(***************************************************************************)
(* SpecExtract: one call of extract_metrics on a 'core' report whose one   *)
(* suite holds up to MaxCases test cases; case i lasts 100 * i ms and is   *)
(* left out, passed or failed.                                             *)
(***************************************************************************)
Case(i, status) == [title |-> NavRenders, status |-> status, duration |-> 100 * i]

RECURSIVE CasesFrom(_, _)
CasesFrom(choice, i) ==
    IF i > MaxCases THEN <<>>
    ELSE (IF choice[i] = "absent" THEN <<>> ELSE <<Case(i, choice[i])>>)
         \o CasesFrom(choice, i + 1)

CaseLists == {CasesFrom(choice, 1) : choice \in [1..MaxCases -> {"absent", "passed", "failed"}]}

CoreReport(cases) == [core |-> [suites |-> <<[tests |-> cases]>>]]

InitExtract ==
    /\ e_results \in {CoreReport(cases) : cases \in CaseLists}
    /\ e_ret = None
    /\ e_pc = "call"
    /\ RunIdle /\ ClassifyIdle /\ FlattenIdle

Extract ==
    /\ e_pc = "call"
    /\ e_ret' = extract_metrics(e_results)
    /\ e_pc' = "returned"
    /\ UNCHANGED <<e_results, runVars, classifyVars, flattenVars>>

NextExtract == Extract
SpecExtract == InitExtract /\ [][NextExtract]_vars

(***************************************************************************)
(* Properties of the categorisation (SpecClassify).                        *)
(***************************************************************************)
\* C3: the category of a (test_type, title) pair follows the rules in order,
\* first match wins: lower-cased title contains 'airtable' or 'integration'
\* -> airtable_integration; else contains 'mobile' or test_type is 'visual'
\* -> mobile_tests; else core_tests (the visual_tests rule never fires);
\* ('visual', 'Mobile nav renders') is mobile_tests and
\* ('core', 'Airtable sync integration') is airtable_integration.
C3_ClassificationRules ==
    c_pc = "returned" =>
        LET t == lower(c_title)
            rule1 == Contains(airtable, t) \/ Contains(integration, t)
            rule2 == Contains(mobile, t) \/ c_type = "visual"
            rule3 == c_type = "visual"
        IN  /\ rule1 => c_category = "airtable_integration"
            /\ (~rule1 /\ rule2) => c_category = "mobile_tests"
            /\ (~rule1 /\ ~rule2 /\ rule3) => c_category = "visual_tests"
            /\ (~rule1 /\ ~rule2 /\ ~rule3) => c_category = "core_tests"
            /\ c_category # "visual_tests"
            /\ (c_type = "visual" /\ c_title = MobileNavRenders)
                   => c_category = "mobile_tests"
            /\ (c_title = AirtableSyncIntegration)
                   => c_category = "airtable_integration"
            /\ (c_type = "core" /\ c_title = W_MOBILE) => c_category = "mobile_tests"
            /\ (c_type = "core" /\ c_title = NavRenders) => c_category = "core_tests"

\* C3 witness: the pair ('visual', 'Mobile nav renders') has been classified
\* as mobile_tests.
C3_Witness ==
    /\ c_pc = "returned"
    /\ c_type = "visual"
    /\ c_title = MobileNavRenders
    /\ c_category = "mobile_tests"

(***************************************************************************)
(* Properties of one execution (Spec).                                     *)
(***************************************************************************)
\* The test cases of the loaded reports, named by position instead of by
\* the walk: report label, index of the root suite, leaf inside that suite.
DocLeaves(res) ==
    UNION {UNION {{[label |-> l, root |-> r, leaf |-> x] :
                        x \in LeafSet(res[l]["suites"][r])} :
                  r \in 1..Len(res[l]["suites"])} :
           l \in {k \in DOMAIN res : "suites" \in DOMAIN res[k]}}

CaseTest(res, c) == TestAt(res[c.label]["suites"][c.root], c.leaf)

InCategory(res, cat) ==
    {c \in DocLeaves(res) : category_of(c.label, CaseTest(res, c)) = cat}

RECURSIVE DurationSum(_, _)
DurationSum(res, S) ==
    IF S = {} THEN 0
    ELSE LET c == CHOOSE x \in S : TRUE
         IN  Get(CaseTest(res, c), "duration", 0) + DurationSum(res, S \ {c})

HasMetrics == pc \in {"summary", "prometheus", "loki", "grafana", "report"}

\* C1: extract_metrics returns a summary (it does not raise) in which every
\* category's total is the number of test cases classified into it,
\* total_duration the sum of their durations (a category without the key
\* counting as 0), passed the number of them with status 'passed' and
\* failed the number with any other status.
C1_ExtractCountsEveryCase ==
    /\ exc # "KeyError"
    /\ HasMetrics =>
         \A cat \in CategorySet :
            LET cases == InCategory(results, cat)
                passedCases == {c \in cases :
                                  Get(CaseTest(results, c), "status", "unknown") = "passed"}
            IN  /\ metrics[cat]["total"] = Cardinality(cases)
                /\ Get(metrics[cat], "total_duration", 0) = DurationSum(results, cases)
                /\ metrics[cat]["passed"] = Cardinality(passedCases)
                /\ metrics[cat]["failed"] = Cardinality(cases \ passedCases)

\* C2: in every summary extract_metrics returned, each category has
\* passed + failed = total with all three non-negative, and a category with
\* total = 0 has success_rate = 0 and avg_duration = 0.
C2_CategoryInvariant ==
    HasMetrics =>
        \A cat \in CategorySet :
            /\ metrics[cat]["passed"] + metrics[cat]["failed"] = metrics[cat]["total"]
            /\ metrics[cat]["total"] >= 0
            /\ metrics[cat]["passed"] >= 0
            /\ metrics[cat]["failed"] >= 0
            /\ metrics[cat]["total"] = 0 =>
                   /\ "success_rate" \in DOMAIN metrics[cat]
                   /\ "avg_duration" \in DOMAIN metrics[cat]
                   /\ metrics[cat]["success_rate"] = 0
                   /\ metrics[cat]["avg_duration"] = 0

\* C2 witness: a returned summary with a passed and a failed core_tests case
\* and three empty categories.
C2_Witness ==
    /\ pc = "summary"
    /\ metrics["core_tests"]["total"] = 2
    /\ metrics["core_tests"]["passed"] = 1
    /\ metrics["core_tests"]["failed"] = 1
    /\ \A cat \in CategorySet \ {"core_tests"} : metrics[cat]["total"] = 0

NoLocationExists == ~fs["core"].exists /\ ~fs["visual"].exists

InOut(kind) == \E j \in 1..Len(out) : out[j].kind = kind

\* C5: when no report location exists, read_test_results returns the empty
\* mapping without raising, run() prints the no-data message and returns
\* False, the process exits with a non-zero status, and neither the
\* aggregation nor any publisher is reached.
C5_NoDataFails ==
    NoLocationExists =>
        /\ pc \in {"main", "returned", "exited"}
        /\ exc = None
        /\ \A b \in Backends : attempts[b] = 0
        /\ pc # "main" =>
               /\ DOMAIN results = {}
               /\ run_result = FALSE
               /\ out = <<Line("starting"), Line("no_results")>>
        /\ pc = "exited" => exit_code = 1

\* C5 witness: a run without any report location has exited with status 1.
C5_Witness ==
    /\ NoLocationExists
    /\ pc = "exited"
    /\ exit_code = 1
    /\ InOut("no_results")

\* read_test_results returned a mapping holding at least one document.
SomeReportLoaded ==
    /\ ~read_test_results(fs).raised
    /\ DOMAIN read_test_results(fs).value # {}

\* C6: the process exits with status 0 if and only if at least one report
\* document was found and loaded, whatever the reports hold and whatever
\* the three publishers' attempts did.
C6_SuccessIffDataLoaded ==
    pc = "exited" => (exit_code = 0 <=> SomeReportLoaded)

\* C7: once the publish phase is reached every publisher makes exactly one
\* delivery attempt: no publisher posts twice, a publisher is attempted only
\* after the ones before it, no failed attempt raises out of its publisher,
\* and a run that started publishing ends with one attempt per backend.
C7_OneAttemptEach ==
    /\ \A b \in Backends : attempts[b] <= 1
    /\ exc # "RequestException"
    /\ pc = "loki" => attempts["prometheus"] = 1
    /\ pc = "grafana" => attempts["prometheus"] = 1 /\ attempts["loki"] = 1
    /\ (pc \in {"report", "returned", "exited"} /\ attempts["prometheus"] = 1)
           => \A b \in Backends : attempts[b] = 1

\* C7 witness: a finished run in which the first publisher got a non-success
\* status, the second a transport error, and all three were attempted once.
C7_Witness ==
    /\ pc = "exited"
    /\ response["prometheus"] = Status(201)
    /\ response["loki"] = TransportError
    /\ ~success["grafana"]
    /\ \A b \in Backends : attempts[b] = 1

GotSuccessStatus(b) ==
    /\ ~response[b].error
    /\ response[b].status_code \in (IF b = "prometheus" THEN {200}
                                    ELSE IF b = "loki" THEN {204}
                                    ELSE {200, 201})

Returned(b) == attempts[b] = 1 /\ exc = None

\* Positions of the elements of out of the given kind, in order.
RECURSIVE KindPositions(_, _)
KindPositions(kind, j) ==
    IF j > Len(out) THEN <<>>
    ELSE (IF out[j].kind = kind THEN <<j>> ELSE <<>>) \o KindPositions(kind, j + 1)

\* Every metric line of the metrics-store payload has been printed, in order.
MetricsPrinted ==
    LET lines == prometheus_metrics(metrics)
        at == KindPositions("prometheus_metric", 1)
    IN  /\ InOut("prometheus_manual")
        /\ Len(at) = Len(lines)
        /\ \A i \in 1..Len(lines) : out[at[i]].metric = lines[i]

\* The whole annotation object has been printed.
AnnotationPrinted ==
    /\ InOut("grafana_manual")
    /\ \E j \in 1..Len(out) :
          out[j].kind = "grafana_annotation" /\ out[j].annotation = annotation(metrics)

\* Two log entries are the same entry.
SameEntry(a, b) ==
    /\ a.level = b.level
    /\ IF a.level = "info" THEN a.category = b.category /\ a = b
       ELSE a.test_name = b.test_name /\ a = b

\* Every entry of the log-store batch has been printed.
WholeBatchPrinted ==
    LET entries == log_entries(metrics, results)
    IN  \A i \in 1..Len(entries) :
            \E j \in 1..Len(out) :
                out[j].kind = "loki_entry" /\ SameEntry(out[j].entry, entries[i])

\* The first three entries of the log-store batch have been printed, and
\* nothing else of the batch but the number of entries left out.
FirstThreePrinted ==
    LET entries == log_entries(metrics, results)
        at == KindPositions("loki_entry", 1)
    IN  /\ InOut("loki_manual")
        /\ Len(at) = 3
        /\ \A i \in 1..3 : SameEntry(out[at[i]].entry, entries[i])
        /\ \E j \in 1..Len(out) :
              out[j].kind = "loki_more" /\ out[j].count = Len(entries) - 3

PublishersReturnStatus ==
    \A b \in Backends : Returned(b) => (success[b] <=> GotSuccessStatus(b))

\* C8 as stated: each publisher returns True exactly when its attempt got a
\* success status, and whenever it returns False its whole payload is on
\* standard output: every metric line, every entry of the log batch, the
\* whole annotation.
C8_FullPayloadOnFailure ==
    /\ PublishersReturnStatus
    /\ (Returned("prometheus") /\ ~success["prometheus"]) => MetricsPrinted
    /\ (Returned("loki") /\ ~success["loki"]) => WholeBatchPrinted
    /\ (Returned("grafana") /\ ~success["grafana"]) => AnnotationPrinted

\* C8 amended: each publisher returns True exactly when its attempt got a
\* success status; on False the metrics-store publisher has printed every
\* metric line and the dashboard publisher the whole annotation, while the
\* log-store publisher has printed only the first three entries of its
\* batch followed by the number of entries it left out.
C8_PayloadOnFailureFirstThreeLogs ==
    /\ PublishersReturnStatus
    /\ (Returned("prometheus") /\ ~success["prometheus"]) => MetricsPrinted
    /\ (Returned("loki") /\ ~success["loki"]) => FirstThreePrinted
    /\ (Returned("grafana") /\ ~success["grafana"]) => AnnotationPrinted

\* C8 witness: all three publishers returned False, the log batch holding a
\* failure record besides the four category summaries.
C8_Witness ==
    /\ pc = "report"
    /\ \A b \in Backends : ~success[b]
    /\ Len(log_entries(metrics, results)) > 4
    /\ FirstThreePrinted
    /\ MetricsPrinted
    /\ AnnotationPrinted

\* The overall totals and the category breakdown are on standard output.
SummaryPrinted ==
    /\ InOut("summary_header")
    /\ \E j \in 1..Len(out) :
          out[j].kind = "total_tests" /\ out[j].value = Cardinality(DocLeaves(results))
    /\ InOut("passed")
    /\ InOut("failed")
    /\ InOut("overall_success_rate")
    /\ InOut("breakdown_header")
    /\ \A cat \in CategorySet :
          metrics[cat]["total"] > 0 =>
              \E j \in 1..Len(out) :
                  /\ out[j].kind = "category"
                  /\ out[j].category = cat
                  /\ out[j].passed = metrics[cat]["passed"]
                  /\ out[j].total = metrics[cat]["total"]

\* C9: no delivery attempt precedes the summary: whenever some backend has
\* been attempted, the overall totals and the category breakdown are
\* already on standard output.
C9_SummaryBeforePublish ==
    (\E b \in Backends : attempts[b] > 0) => SummaryPrinted

\* C9 witness: all three backends failed and the summary, with a category
\* line, is on standard output.
C9_Witness ==
    /\ pc = "exited"
    /\ \A b \in Backends : attempts[b] = 1 /\ ~success[b]
    /\ SummaryPrinted
    /\ InOut("category")

SomeMalformed ==
    \E l \in {"core", "visual"} : fs[l].exists /\ ~fs[l].parses

OneAbsentOneParsed ==
    \E l \in {"core", "visual"} :
        /\ ~fs[l].exists
        /\ \A k \in {"core", "visual"} \ {l} : fs[k].exists /\ fs[k].parses

\* C10: a location that exists but does not parse makes the error leave
\* read_test_results and run() before any aggregation, summary or publish
\* attempt, also when the other location parses; an absent location is
\* skipped without error and the remaining report is still aggregated.
C10_MalformedAbortsAbsentSkipped ==
    /\ SomeMalformed =>
          /\ pc \in {"main", "exited"}
          /\ pc = "exited" =>
                /\ exc = "JSONDecodeError"
                /\ exit_code = 1
                /\ out = <<Line("starting")>>
          /\ \A b \in Backends : attempts[b] = 0
    /\ OneAbsentOneParsed =>
          /\ exc = None
          /\ pc \notin {"main", "extract"} => HasMetrics \/ run_result = TRUE

\* run() came back to its caller (no exception left it).
RunReturned == pc \in {"returned", "exited"} /\ exc = None

\* The four aggregate lines of the summary are on standard output.
AggregatePrinted ==
    /\ InOut("summary_header")
    /\ InOut("total_tests")
    /\ InOut("passed")
    /\ InOut("failed")
    /\ InOut("overall_success_rate")

\* The breakdown holds a line for the category.
CategoryLine(cat) ==
    /\ InOut("breakdown_header")
    /\ \E j \in 1..Len(out) : out[j].kind = "category" /\ out[j].category = cat

\* The integration summary tells whether the backend succeeded.
BackendLine(b) ==
    \E j \in 1..Len(out) :
        out[j].kind = "backend" /\ out[j].backend = b /\ out[j].ok = success[b]

\* C11: the console output of every run of run() that returns, with or
\* without report data and whatever the counts of the categories are, holds
\* the aggregate summary, a breakdown line for each of the four categories
\* and a success/failure line for each of the three backends.
C11_OutputAlwaysComplete ==
    RunReturned =>
        /\ AggregatePrinted
        /\ \A cat \in CategorySet : CategoryLine(cat)
        /\ \A b \in Backends : BackendLine(b)

\* C11 amended: a run of run() that returns True has printed the aggregate
\* summary, a breakdown line for exactly the categories whose total is
\* above 0, and a success/failure line for each of the three backends; a
\* run that returns False found no report data and has printed only the
\* start line and the no-data message.
C11_OutputCompleteWhenDataLoaded ==
    RunReturned =>
        IF run_result = TRUE
        THEN /\ AggregatePrinted
             /\ \A cat \in CategorySet : CategoryLine(cat) <=> metrics[cat]["total"] > 0
             /\ \A b \in Backends : BackendLine(b)
        ELSE /\ DOMAIN results = {}
             /\ out = <<Line("starting"), Line("no_results")>>

\* C11 witness: a run over loaded data returned True after one backend
\* succeeded and another failed; the breakdown shows core_tests and leaves
\* out the categories without cases.
C11_Witness ==
    /\ pc = "exited"
    /\ exc = None
    /\ run_result = TRUE
    /\ success["prometheus"] /\ ~success["loki"]
    /\ metrics["core_tests"]["total"] > 0
    /\ metrics["visual_tests"]["total"] = 0
    /\ CategoryLine("core_tests")
    /\ ~CategoryLine("visual_tests")
    /\ \A b \in Backends : BackendLine(b)

(***************************************************************************)
(* Properties of the derived values (SpecExtract).                         *)
(***************************************************************************)
SummaryReturned == e_pc = "returned" /\ ~e_ret.raised

\* The report of the example: 2 passed and 3 failed cases of 100 .. 500 ms.
ExampleReport ==
    CoreReport(<<Case(1, "passed"), Case(2, "passed"), Case(3, "failed"),
                 Case(4, "failed"), Case(5, "failed")>>)

\* What the example yields: total 5, passed 2, failed 3, success_rate 40,
\* avg_duration 300.
ExampleValues ==
    LET d == e_ret.metrics["core_tests"]
    IN  /\ d["total"] = 5 /\ d["passed"] = 2 /\ d["failed"] = 3
        /\ float_value(d["success_rate"]) = float_of_int(40)
        /\ float_value(d["avg_duration"]) = float_of_int(300)

RECURSIVE Decrement(_)
Decrement(bits) ==
    IF bits[Len(bits)] = 1
    THEN Append(SubSeq(bits, 1, Len(bits) - 1), 0)
    ELSE Append(Decrement(SubSeq(bits, 1, Len(bits) - 1)), 1)

\* the next float above and the next float below a positive float
FloatSucc(x) ==
    IF \A i \in 1..Len(x.mant) : x.mant[i] = 1
    THEN [mant |-> <<1>> \o [i \in 1..(Len(x.mant) - 1) |-> 0], exp |-> x.exp + 1]
    ELSE [mant |-> Increment(x.mant), exp |-> x.exp]
FloatPred(x) ==
    IF \A i \in 2..Len(x.mant) : x.mant[i] = 0
    THEN [mant |-> [i \in 1..Len(x.mant) |-> 1], exp |-> x.exp - 1]
    ELSE [mant |-> Decrement(x.mant), exp |-> x.exp]

\* x is the float of the positive int n or one of its two neighbours
WithinOneUlp(x, n) ==
    x \in {float_of_int(n), FloatSucc(float_of_int(n)), FloatPred(float_of_int(n))}

C12_InexactWitness ==
    /\ SummaryReturned
    /\ e_ret.metrics["core_tests"]["total"] = 3
    /\ e_ret.metrics["core_tests"]["passed"] = 1
    /\ float_mul(float_value(e_ret.metrics["core_tests"]["success_rate"]), 3)
         = FloatPred(float_of_int(100))

====
